---- MODULE Spec2Model ----
(***************************************************************************)
(* A model of utils/spotify.py: the Spotify client-credentials token       *)
(* (SpotifyClientCredentialsJWTToken), the two scrapy spiders              *)
(* (SpotifySearchCrawler, SpotifySearchCrawlerWithLyrics) and the item     *)
(* pipeline (TrackItemPipeline).                                           *)
(*                                                                         *)
(* Python strings that the code inspects character by character (names,    *)
(* titles, hrefs, filenames) are sequences of one-character strings.       *)
(* Python dicts whose keys the code tests are records carrying a `keys`    *)
(* set; a field whose key is absent holds a fixed filler value.            *)
(***************************************************************************)
EXTENDS Integers, Sequences, FiniteSets, TLC

VARIABLES
    clock,          \* the reading time.time() would give now (seconds)
    valid_until,    \* SpotifyClientCredentialsJWTToken.valid_until
    token_info,     \* SpotifyClientCredentialsJWTToken.token_info
    calls,          \* number of get_authorized_header calls made so far
    grants,         \* number of grant exchanges (_get_auth_token calls) so far
    firstOk,        \* history: the first grant exchange that returned a full body
    lastCall,       \* history: the most recent get_authorized_header call
    lastOk,         \* history: the most recent grant exchange that returned a full body
    lazy_grants,    \* history: grant exchanges made by a call that read the clock
                    \* past valid_until
    environ,        \* os.environ: the names of the variables that are set
    constructed,    \* the object a constructor was called for, and how the call ended
    filename,       \* the argument of a legalize_filename call
    legalized,      \* the results of the legalize_filename calls made, in order
    spider,         \* the spider the engine runs: its class name and require_exact
    genius_hits,    \* the hits the Genius search can list
    max_hits,       \* the most hits one Genius search lists
    start_pos,      \* start_requests: index of the next year, past the end when done
    spotify_requests, \* scheduled requests with callback parse
    genius_requests,  \* scheduled requests with callback parse_lyrics_search_result
    lyrics_requests,  \* scheduled requests with callback populate_song_lyrics
    parse_frames,   \* suspended parse generators
    search_frames,  \* suspended parse_lyrics_search_result generators
    tracks,         \* the track dicts of the parsed responses, by reference
    files,          \* the files of output_dir: name -> the item dumped into it
    errors,         \* exceptions raised out of callbacks and logged by the engine
    served,         \* history: per year, the pages Spotify served, in order
    processed,      \* history: the items yielded to the engine, with the number of
                    \* times each was handed to process_item
    matched         \* history: per track, the hits served and the requests yielded

tokenHistory == <<calls, grants, firstOk, lastCall, lastOk, lazy_grants>>

tokenVars == <<clock, valid_until, token_info, tokenHistory>>

crawlVars == <<spider, genius_hits, max_hits, start_pos, spotify_requests, genius_requests,
               lyrics_requests, parse_frames, search_frames, tracks, files, errors,
               served, matched, processed>>

legalVars == <<filename, legalized>>

ctorVars == <<environ, constructed>>

vars == <<tokenVars, legalVars, crawlVars, ctorVars>>

----------------------------------------------------------------------------
(* Bounds of the model *)

MaxClock == 3
MaxCalls == 3
MaxDelay == 1
MaxNameLen == 3
NumYears == 1
MaxPages == 2
MaxItems == 1
MaxHits == 2
MaxCrawlHits == 1

(* The seconds subtracted from expires_in ("subtract some bleed"). *)
Bleed == 30

(* The clock readings the token object may be constructed at. *)
StartClocks == {0, 1}

(* Values the token endpoint may put into a grant response. *)
AccessTokens == {"t1", "t2"}
ExpiresIns == {29, 30, 31}

----------------------------------------------------------------------------
(* SpotifyClientCredentialsJWTToken *)

(* token_info = None *)
None == [set |-> FALSE, keys |-> {}, access_token |-> "", expires_in |-> 0]

(* The JSON objects json.load(response) may give. *)
GrantBodies ==
    { [set |-> TRUE,
       keys |-> (IF a = "" THEN {} ELSE {"access_token"})
                  \cup (IF e = 0 THEN {} ELSE {"expires_in"}),
       access_token |-> a,
       expires_in |-> e] : a \in AccessTokens \cup {""}, e \in ExpiresIns \cup {0} }

(* What _get_auth_token does: urlopen raises (URLError on a network error, *)
(* HTTPError on a non-2xx status), json.load raises on a body that is not  *)
(* JSON, or a JSON object is returned.                                     *)
GrantOutcomes ==
    { [raises |-> TRUE, body |-> None] }
      \cup { [raises |-> FALSE, body |-> b] : b \in GrantBodies }

FullBody(b) == b.set /\ b.keys = {"access_token", "expires_in"}

Succeeds(outcome) == ~outcome.raises /\ FullBody(outcome.body)

(* The expiry test with >= in place of >. *)
ExpiredInclusive(now, vu) == now >= vu

(* An expiry test that finds every token expired. *)
ExpiredAlways(now, vu) == TRUE

(* time.time() > self.valid_until *)
Expired(now, vu) == now > vu

(* refresh_token that moves valid_until on but keeps the cached token_info. *)
refresh_token_keeping_cache(self, refresh_time, outcome) ==
    IF outcome.raises
    THEN [token_info |-> self.token_info, valid_until |-> self.valid_until,
          raised |-> "URLError"]
    ELSE IF "expires_in" \in outcome.body.keys
         THEN [token_info |-> IF self.token_info.set THEN self.token_info
                              ELSE outcome.body,
               valid_until |-> refresh_time + outcome.body.expires_in - Bleed,
               raised |-> ""]
         ELSE [token_info |-> outcome.body, valid_until |-> self.valid_until,
               raised |-> "KeyError"]

(* refresh_token: the assignment of token_info precedes the read of         *)
(* token_info['expires_in'], so a body without expires_in replaces the      *)
(* cached token_info and then raises KeyError, valid_until untouched.       *)
refresh_token(self, refresh_time, outcome) ==
    IF outcome.raises
    THEN [token_info |-> self.token_info, valid_until |-> self.valid_until,
          raised |-> "URLError"]
    ELSE IF "expires_in" \in outcome.body.keys
         THEN [token_info |-> outcome.body,
               valid_until |-> refresh_time + outcome.body.expires_in - Bleed,
               raised |-> ""]
         ELSE [token_info |-> outcome.body, valid_until |-> self.valid_until,
               raised |-> "KeyError"]

Header(access_token) ==
    [kind |-> "header", exc |-> "", Authorization |-> <<"Bearer", access_token>>]

Raised(exc) == [kind |-> "error", exc |-> exc, Authorization |-> <<>>]

(* get_authorized_header building the header from the token_info it found, *)
(* when there was one, instead of the refreshed one.                        *)
get_authorized_header_stale(self, now, refresh_time, outcome) ==
    LET refresh == Expired(now, self.valid_until)
        after == IF refresh
                 THEN refresh_token(self, refresh_time, outcome)
                 ELSE [token_info |-> self.token_info,
                       valid_until |-> self.valid_until, raised |-> ""]
        used == IF self.token_info.set THEN self.token_info ELSE after.token_info
        result == IF after.raised # "" THEN Raised(after.raised)
                  ELSE IF ~used.set THEN Raised("TypeError")
                  ELSE IF "access_token" \notin used.keys
                       THEN Raised("KeyError")
                  ELSE Header(used.access_token)
    IN [token_info |-> after.token_info, valid_until |-> after.valid_until,
        result |-> result, exchanged |-> refresh]

(* get_authorized_header: `now` is the reading at the expiry test,          *)
(* `refresh_time` the reading inside refresh_token.  Gives the object's     *)
(* fields afterwards, what the caller gets, and whether a grant exchange    *)
(* was made.                                                                *)
get_authorized_header(self, now, refresh_time, outcome) ==
    LET refresh == Expired(now, self.valid_until)
        after == IF refresh
                 THEN refresh_token(self, refresh_time, outcome)
                 ELSE [token_info |-> self.token_info,
                       valid_until |-> self.valid_until, raised |-> ""]
        result == IF after.raised # "" THEN Raised(after.raised)
                  ELSE IF ~after.token_info.set THEN Raised("TypeError")
                  ELSE IF "access_token" \notin after.token_info.keys
                       THEN Raised("KeyError")
                  ELSE Header(after.token_info.access_token)
    IN [token_info |-> after.token_info, valid_until |-> after.valid_until,
        result |-> result, exchanged |-> refresh]

(* A credential that is None *)
Missing == "None"

(* The environment variables the constructors read *)
EnvNames == {"SPOTIFY_CLIENT_ID", "SPOTIFY_CLIENT_SECRET", "CLIENT_ID", "CLIENT_SECRET"}

(* os.environ[name] of a variable that is set *)
EnvValue(name) == "env"

(* if client_id is None: client_id = os.environ[id_name], client_secret =    *)
(* os.environ[secret_name], each KeyError turned into an Exception.  With a  *)
(* client_id given, both arguments are taken as they are.                    *)
ResolveCredentials(client_id, client_secret, env, id_name, secret_name) ==
    IF client_id = Missing
    THEN IF id_name \notin env \/ secret_name \notin env
         THEN [raised |-> "Exception", client_id |-> client_id,
               client_secret |-> client_secret]
         ELSE [raised |-> "", client_id |-> EnvValue(id_name),
               client_secret |-> EnvValue(secret_name)]
    ELSE [raised |-> "", client_id |-> client_id, client_secret |-> client_secret]

NoArgs == [client_id |-> Missing, client_secret |-> Missing, token |-> Missing]

NotConstructed ==
    [kind |-> "", args |-> NoArgs, client_id |-> Missing, client_secret |-> Missing,
     token |-> Missing, lazy_initialize |-> TRUE, raised |-> ""]

(* The object of class kind that a constructor call with args left behind,  *)
(* or the exception the call ended with                                      *)
Constructed(kind, args, client_id, client_secret, token, lazy_initialize, raised) ==
    [kind |-> kind, args |-> args, client_id |-> client_id,
     client_secret |-> client_secret, token |-> token,
     lazy_initialize |-> lazy_initialize, raised |-> raised]

NoCall ==
    [made |-> FALSE, now |-> 0, seen_valid_until |-> 0, seen_token_info |-> None,
     grants_before |-> 0, exchanged |-> FALSE,
     outcome |-> [raises |-> TRUE, body |-> None], result |-> Raised("")]

NoGrant == [set |-> FALSE, time |-> 0, body |-> None, grants_before |-> 0]

(* __init__ with lazy_initialize=True, the way both spiders construct it. *)
TokenConstructed ==
    /\ clock \in StartClocks
    /\ valid_until = 0
    /\ token_info = None
    /\ calls = 0
    /\ grants = 0
    /\ firstOk = NoGrant
    /\ lastCall = NoCall
    /\ lastOk = NoGrant
    /\ lazy_grants = 0
    /\ environ = {}
    /\ constructed = Constructed("SpotifyClientCredentialsJWTToken",
                                 [NoArgs EXCEPT !.client_id = "id", !.client_secret = "secret"],
                                 "id", "secret", Missing, TRUE, "")

(* One call of get_authorized_header.  d1 seconds pass between the expiry   *)
(* test and the reading in refresh_token, d2 during the grant exchange;     *)
(* without a refresh the call takes no time.                                *)
AuthorizedHeaderCall(d1, d2, offered) ==
    LET self == [token_info |-> token_info, valid_until |-> valid_until]
        r == get_authorized_header(self, clock, clock + d1, offered)
        outcome == IF r.exchanged THEN offered ELSE [raises |-> TRUE, body |-> None]
    IN /\ token_info' = r.token_info
       /\ valid_until' = r.valid_until
       /\ clock' = IF r.exchanged THEN clock + d1 + d2 ELSE clock
       /\ grants' = IF r.exchanged THEN grants + 1 ELSE grants
       /\ firstOk' = IF ~firstOk.set /\ r.exchanged /\ Succeeds(offered)
                     THEN [set |-> TRUE, time |-> clock + d1, body |-> offered.body,
                           grants_before |-> grants]
                     ELSE firstOk
       /\ lastOk' = IF r.exchanged /\ Succeeds(offered)
                    THEN [set |-> TRUE, time |-> clock + d1, body |-> offered.body,
                          grants_before |-> grants]
                    ELSE lastOk
       /\ lazy_grants' = IF r.exchanged /\ clock > valid_until
                         THEN lazy_grants + 1 ELSE lazy_grants
       /\ lastCall' = [made |-> TRUE, now |-> clock, seen_valid_until |-> valid_until,
                       seen_token_info |-> token_info, grants_before |-> grants,
                       exchanged |-> r.exchanged, outcome |-> outcome,
                       result |-> r.result]

Call ==
    /\ constructed.kind = "SpotifyClientCredentialsJWTToken"
    /\ constructed.raised = ""
    /\ calls < MaxCalls
    /\ \E d1 \in 0..MaxDelay, d2 \in 0..MaxDelay, offered \in GrantOutcomes :
          /\ clock + d1 + d2 <= MaxClock
          /\ AuthorizedHeaderCall(d1, d2, offered)
    /\ calls' = calls + 1
    /\ UNCHANGED <<legalVars, crawlVars, ctorVars>>

Tick ==
    /\ clock < MaxClock
    /\ clock' = clock + 1
    /\ UNCHANGED <<valid_until, token_info, tokenHistory, legalVars, crawlVars, ctorVars>>

----------------------------------------------------------------------------
(* The constructors *)

(* The values a credential argument may be given: None or a string *)
CredentialArgs == {Missing, "arg"}

(* SpotifyClientCredentialsJWTToken(client_id, client_secret, lazy_initialize): *)
(* the credentials are resolved, valid_until and token_info are set, and     *)
(* without lazy_initialize refresh_token is called, whose exception ends the *)
(* constructor.  The arguments are drawn from ids and secrets.               *)
ConstructTokenFrom(ids, secrets) ==
    /\ constructed = NotConstructed
    /\ \E client_id \in ids, client_secret \in secrets,
          lazy_initialize \in BOOLEAN, offered \in GrantOutcomes :
          LET args == [NoArgs EXCEPT !.client_id = client_id,
                                     !.client_secret = client_secret]
              c == ResolveCredentials(client_id, client_secret, environ,
                                      "SPOTIFY_CLIENT_ID", "SPOTIFY_CLIENT_SECRET")
              r == refresh_token([token_info |-> None, valid_until |-> 0], clock, offered)
              refreshed == c.raised = "" /\ ~lazy_initialize
              granted == [set |-> TRUE, time |-> clock, body |-> offered.body,
                          grants_before |-> grants]
          IN /\ constructed' =
                   Constructed("SpotifyClientCredentialsJWTToken", args, c.client_id,
                               c.client_secret, Missing, lazy_initialize,
                               IF c.raised # "" THEN c.raised
                               ELSE IF refreshed THEN r.raised ELSE "")
             /\ token_info' = IF refreshed THEN r.token_info ELSE None
             /\ valid_until' = IF refreshed THEN r.valid_until ELSE 0
             /\ grants' = IF refreshed THEN grants + 1 ELSE grants
             /\ firstOk' = IF refreshed /\ Succeeds(offered) THEN granted ELSE firstOk
             /\ lastOk' = IF refreshed /\ Succeeds(offered) THEN granted ELSE lastOk
    /\ UNCHANGED <<clock, calls, lastCall, lazy_grants, environ, legalVars, crawlVars>>

ConstructToken == ConstructTokenFrom(CredentialArgs, CredentialArgs)

(* The construction with both credentials given as arguments *)
ConstructTokenWithCredentials == ConstructTokenFrom({"arg"}, {"arg"})

(* GeniusAPIJWTToken(token): the argument is stored as it is *)
ConstructGenius ==
    /\ constructed = NotConstructed
    /\ \E token \in CredentialArgs :
          constructed' = Constructed("GeniusAPIJWTToken", [NoArgs EXCEPT !.token = token],
                                     Missing, Missing, token, TRUE, "")
    /\ UNCHANGED <<tokenVars, environ, legalVars, crawlVars>>

(* SpotifySearchCrawlerWithLyrics(spotify_client_id, spotify_client_secret,  *)
(* genius_api_token): the Spotify credentials are resolved from CLIENT_ID    *)
(* and CLIENT_SECRET and handed to SpotifyClientCredentialsJWTToken, the     *)
(* Genius token to GeniusAPIJWTToken.                                        *)
ConstructCrawler ==
    /\ constructed = NotConstructed
    /\ \E spotify_client_id \in CredentialArgs, spotify_client_secret \in CredentialArgs,
          genius_api_token \in CredentialArgs :
          LET args == [client_id |-> spotify_client_id,
                       client_secret |-> spotify_client_secret,
                       token |-> genius_api_token]
              c == ResolveCredentials(spotify_client_id, spotify_client_secret, environ,
                                      "CLIENT_ID", "CLIENT_SECRET")
              t == ResolveCredentials(c.client_id, c.client_secret, environ,
                                      "SPOTIFY_CLIENT_ID", "SPOTIFY_CLIENT_SECRET")
              raised == IF c.raised # "" THEN c.raised ELSE t.raised
          IN constructed' =
                Constructed("SpotifySearchCrawlerWithLyrics", args,
                            IF c.raised # "" THEN c.client_id ELSE t.client_id,
                            IF c.raised # "" THEN c.client_secret ELSE t.client_secret,
                            IF raised = "" THEN genius_api_token ELSE Missing,
                            TRUE, raised)
    /\ UNCHANGED <<tokenVars, environ, legalVars, crawlVars>>

----------------------------------------------------------------------------
(* TrackItemPipeline.legalize_filename *)

(* TrackItemPipeline.legalizer, in the order the dict literal lists it *)
(* (the order .items() iterates in).                                   *)
legalizer_without_colon ==
    << <<"\"", <<"(", "(", "d", "q", "u", "o", "t", "e", ")", ")">> >>,
       <<"*", <<"(", "(", "a", "s", "t", "e", "r", "i", "s", "k", ")", ")">> >>,
       <<"<", <<"(", "(", "l", "t", ")", ")">> >>,
       <<">", <<"(", "(", "g", "t", ")", ")">> >>,
       <<"?", <<"(", "(", "q", ")", ")">> >>,
       <<"\\", <<"(", "(", "b", "s", "l", "a", "s", "h", ")", ")">> >>,
       <<"/", <<"(", "(", "f", "s", "l", "a", "s", "h", ")", ")">> >>,
       <<"|", <<"(", "(", "p", "i", "p", "e", ")", ")">> >> >>

(* The table with a colon left inside the token that stands for the colon. *)
legalizer_with_reserved_token ==
    << <<"\"", <<"(", "(", "d", "q", "u", "o", "t", "e", ")", ")">> >>,
       <<"*", <<"(", "(", "a", "s", "t", "e", "r", "i", "s", "k", ")", ")">> >>,
       <<"<", <<"(", "(", "l", "t", ")", ")">> >>,
       <<">", <<"(", "(", "g", "t", ")", ")">> >>,
       <<"?", <<"(", "(", "q", ")", ")">> >>,
       <<"\\", <<"(", "(", "b", "s", "l", "a", "s", "h", ")", ")">> >>,
       <<"/", <<"(", "(", "f", "s", "l", "a", "s", "h", ")", ")">> >>,
       <<"|", <<"(", "(", "p", "i", "p", "e", ")", ")">> >>,
       <<":", <<"(", "(", ":", ")", ")">> >> >>

legalizer ==
    << <<"\"", <<"(", "(", "d", "q", "u", "o", "t", "e", ")", ")">> >>,
       <<"*", <<"(", "(", "a", "s", "t", "e", "r", "i", "s", "k", ")", ")">> >>,
       <<"<", <<"(", "(", "l", "t", ")", ")">> >>,
       <<">", <<"(", "(", "g", "t", ")", ")">> >>,
       <<"?", <<"(", "(", "q", ")", ")">> >>,
       <<"\\", <<"(", "(", "b", "s", "l", "a", "s", "h", ")", ")">> >>,
       <<"/", <<"(", "(", "f", "s", "l", "a", "s", "h", ")", ")">> >>,
       <<"|", <<"(", "(", "p", "i", "p", "e", ")", ")">> >>,
       <<":", <<"(", "(", "c", "o", "l", "o", "n", ")", ")">> >> >>

(* str.replace(old, new) for a one-character old: every occurrence, left to right *)
RECURSIVE replace(_, _, _)
replace(s, old, new) ==
    IF s = <<>> THEN <<>>
    ELSE (IF Head(s) = old THEN new ELSE <<Head(s)>>) \o replace(Tail(s), old, new)

(* the loop of legalize_filename from table entry i on *)
RECURSIVE legalize_from(_, _)
legalize_from(s, i) ==
    IF i > Len(legalizer) THEN s
    ELSE legalize_from(replace(s, legalizer[i][1], legalizer[i][2]), i + 1)

legalize_filename(s) == legalize_from(s, 1)

(* Characters of the filenames tried: the nine reserved ones, the two the   *)
(* tokens are bracketed with, and a letter.                                 *)
NameChars == {"\"", "*", "<", ">", "?", "\\", "/", "|", ":", "(", ")", "a"}

RECURSIVE StringsUpTo(_, _)
StringsUpTo(chars, n) ==
    IF n = 0 THEN {<<>>}
    ELSE LET shorter == StringsUpTo(chars, n - 1)
         IN shorter \cup {<<c>> \o t : c \in chars, t \in {u \in shorter : Len(u) = n - 1}}

(* a/b:c"d *)
ExampleName == <<"a", "/", "b", ":", "c", "\"", "d">>

Filenames == StringsUpTo(NameChars, MaxNameLen) \cup {ExampleName}

LegalizeIdle ==
    /\ filename = <<>>
    /\ legalized = <<>>

LegalizeFilename ==
    /\ legalized = <<>>
    /\ legalized' = <<legalize_filename(filename)>>
    /\ UNCHANGED <<filename, tokenVars, crawlVars, ctorVars>>

(* legalize_filename called on the name the first call returned *)
LegalizeAgain ==
    /\ Len(legalized) = 1
    /\ legalized' = Append(legalized, legalize_filename(legalized[1]))
    /\ UNCHANGED <<filename, tokenVars, crawlVars, ctorVars>>

----------------------------------------------------------------------------
(* Strings *)

Digit(n) == <<"0", "1", "2", "3", "4", "5", "6", "7", "8", "9">>[n + 1]

(* str.lower() on the letters the model uses *)
LowerChar(c) ==
    CASE c = "A" -> "a"
      [] c = "B" -> "b"
      [] c = "H" -> "h"
      [] c = "I" -> "i"
      [] c = "L" -> "l"
      [] OTHER -> c

lower(s) == [i \in 1..Len(s) |-> LowerChar(s[i])]

(* Python's `sub in s` on strings *)
contains(s, sub) ==
    \E i \in 0..(Len(s) - Len(sub)) : SubSeq(s, i + 1, i + Len(sub)) = sub

(* position of the first occurrence of character c in s, 0 when absent *)
find(s, c) ==
    IF \E i \in 1..Len(s) : s[i] = c
    THEN CHOOSE i \in 1..Len(s) : s[i] = c /\ \A j \in 1..(i - 1) : s[j] # c
    ELSE 0

(* The part of the href before its first "?" *)
urlparse_path(href) ==
    IF find(href, "?") = 0 THEN href ELSE SubSeq(href, 1, find(href, "?") - 1)

(* parse.urlparse(href).query: what follows the first "?", up to a "#" *)
urlparse_query(href) ==
    LET noFragment == IF find(href, "#") = 0 THEN href
                      ELSE SubSeq(href, 1, find(href, "#") - 1)
        q == find(noFragment, "?")
    IN IF q = 0 THEN <<>> ELSE SubSeq(noFragment, q + 1, Len(noFragment))

----------------------------------------------------------------------------
(* What the two web APIs serve *)

(* start_requests: target_year, cut to its first NumYears entries *)
target_year == SubSeq(<<"2019", "2020", "2021", "2022">>, 1, NumYears)

(* A request URL of the Spotify search: the query of a year at a page offset *)
SearchUrl(y, i) == [year |-> y, page |-> i]

NoUrl == [year |-> 0, page |-> 0]

(* The href Spotify reports for that page: path, "?", query string *)
Href(url) == <<"s", "/", "?", "y", Digit(url.year), "o", Digit(url.page)>>

(* A reference to one track dict of one parsed response: year, page, position *)
TrackRef(url, k) == <<url.year, url.page, k>>

(* (name, first artist) of the tracks Spotify lists *)
SpotifySongs == { [name |-> <<"H", "i">>, artist |-> <<"A", "l">>] }

(* A track dict as Spotify serves it *)
TrackDict(ref, song) ==
    [keys |-> {"id", "name", "artists"},
     id |-> <<"t", Digit(ref[1]), Digit(ref[2]), Digit(ref[3])>>,
     name |-> song.name,
     artist |-> song.artist,
     pipeline_identifier |-> <<>>,
     lyrics |-> <<>>,
     lyrics_song_name |-> <<>>,
     lyrics_artist_name |-> <<>>]

(* response.json()['tracks'] of the page at url, holding n tracks *)
PageDict(url, n, hasNext) ==
    [keys |-> {"href", "items"} \cup (IF hasNext THEN {"next"} ELSE {}),
     href |-> Href(url),
     items |-> [k \in 1..n |-> TrackRef(url, k)],
     next |-> IF hasNext THEN SearchUrl(url.year, url.page + 1) ELSE NoUrl]

(* The pages Spotify may answer the request for url with: up to MaxItems    *)
(* tracks, and a next cursor on any page before the MaxPages-th.            *)
PagesAt(url) ==
    { PageDict(url, n, hasNext) :
        n \in 0..MaxItems,
        hasNext \in IF url.page < MaxPages THEN BOOLEAN ELSE {FALSE} }

(* A response whose JSON object has no tracks key *)
NoTracks(url) == [PageDict(url, 0, FALSE) EXCEPT !.keys = {}]

(* The malformed pages Spotify may answer with: a page without its href or  *)
(* without its items                                                        *)
MalformedPagesAt(url) ==
    { [p EXCEPT !.keys = @ \ {"href"}] : p \in PagesAt(url) }
      \cup { [p EXCEPT !.keys = @ \ {"items"}, !.items = <<>>] : p \in PagesAt(url) }

(* response.json() of the request for url *)
ResponsesAt(url) ==
    { [keys |-> {"tracks"}, tracks |-> p] : p \in PagesAt(url) \cup MalformedPagesAt(url) }
      \cup { [keys |-> {}, tracks |-> NoTracks(url)] }

(* The key a served track may lack: none, artists or name *)
TrackFaults == {"", "artists", "name"}

Faulty(track, fault) == [track EXCEPT !.keys = @ \ {fault}]

(* A hit of the Genius search: c['type'] and c['result'] *)
Hit(type, title, artist_names) ==
    [type |-> type, title |-> title, artist_names |-> artist_names,
     path |-> <<"/">> \o artist_names \o <<"-">> \o title]

(* The hits the Genius search may list while crawling *)
CrawlHits ==
    { Hit("song", <<"H", "i">>, <<"A", "l">>),
      Hit("song", <<"b">>, <<"A", "l">>) }

(* The (name, first artist) pairs and the hits the matching is tried on *)
MatcherSongs ==
    { [name |-> n, artist |-> a] : n \in {<<"H", "i">>, <<"b">>},
                                   a \in {<<"A", "l">>, <<"a">>} }

MatcherHits ==
    { Hit(type, title, artist_names) :
        type \in {"song", "album"},
        title \in {<<"h", "I", "b">>, <<"i">>},
        artist_names \in {<<"a", "L">>, <<"b">>} }

RECURSIVE HitLists(_, _)
HitLists(hits, n) ==
    IF n = 0 THEN {<<>>}
    ELSE LET shorter == HitLists(hits, n - 1)
         IN shorter \cup {Append(l, h) : l \in {m \in shorter : Len(m) = n - 1}, h \in hits}

(* The text fragments the lyrics page at a path holds inside its lyrics     *)
(* containers, in document order                                            *)
LyricsSections(path) == << SubSeq(path, 2, 2), <<"l", "a">> >>

(* ''.join(sections) *)
RECURSIVE join(_)
join(sections) ==
    IF sections = <<>> THEN <<>> ELSE Head(sections) \o join(Tail(sections))

LYRICS_NOT_FOUND ==
    <<"<", "L", "Y", "R", "I", "C", "S", "-", "N", "O", "T", "-",
      "F", "O", "U", "N", "D", ">">>

----------------------------------------------------------------------------
(* TrackItemPipeline.process_item *)

(* The dict SpotifySearchCrawler.parse yields: the page itself *)
PageItem(page) ==
    [keys |-> page.keys, id |-> <<>>, name |-> <<>>, artist |-> <<>>,
     pipeline_identifier |-> <<>>, lyrics |-> <<>>, lyrics_song_name |-> <<>>,
     lyrics_artist_name |-> <<>>]

(* f'{identifier}-{song_id}.json' *)
OutputName(identifier, song_id) ==
    identifier \o <<"-">> \o song_id \o <<".", "j", "s", "o", "n">>

(* process_item on an item, given the files written so far: the four item   *)
(* lookups raise KeyError on a dict without the key; otherwise the item is   *)
(* dumped to the legalized name, replacing a file of that name.  `opens`    *)
(* tells whether output_filename.open(mode='w') succeeds; its OSError is    *)
(* caught nowhere in process_item.                                          *)
process_item(item, written, opens) ==
    IF {"pipeline_identifier", "artists", "name", "id"} \subseteq item.keys
    THEN IF opens
         THEN LET output_filename ==
                      legalize_filename(OutputName(item.pipeline_identifier, item.id))
              IN [files |-> [f \in DOMAIN written \cup {output_filename} |->
                                IF f = output_filename THEN item ELSE written[f]],
                  raised |-> ""]
         ELSE [files |-> written, raised |-> "OSError"]
    ELSE [files |-> written, raised |-> "KeyError"]

(* The items handed to process_item, with one more: item, yielded at `at` *)
Handed(log, at, item) ==
    LET x == [at |-> at, item |-> item]
    IN IF x \in DOMAIN log THEN [log EXCEPT ![x] = @ + 1] ELSE (x :> 1) @@ log

----------------------------------------------------------------------------
(* The spiders, run by the scrapy engine.                                   *)
(*                                                                          *)
(* A callback is a generator.  The engine downloads a scheduled request and *)
(* runs the callback up to its first yield; it handles what was yielded (a  *)
(* Request is scheduled, an item goes through TrackItemPipeline.process_item*)
(* at once) and resumes the generator later, other callbacks running in     *)
(* between.  A generator with nothing left to run after a yield is dropped  *)
(* at that yield.                                                           *)

Spiders ==
    { [name |-> "SpotifySearchCrawler", require_exact |-> FALSE] }
      \cup { [name |-> "SpotifySearchCrawlerWithLyrics", require_exact |-> e] :
               e \in BOOLEAN }

(* The grant responses offered while crawling: a failed exchange, or a full *)
(* body whose token is good until the clock moves on.                       *)
CrawlGrantOutcomes ==
    { o \in GrantOutcomes :
        o.raises \/ (FullBody(o.body) /\ o.body.expires_in = 30
                                     /\ o.body.access_token = "t1") }

SpiderError(callback, at, exc) == [callback |-> callback, at |-> at, exc |-> exc]

(* the fields of self.token / self.spotify_token after a call made at `now` *)
(* that gave r                                                              *)
TokenAfter(r, now) ==
    /\ token_info' = r.token_info
    /\ valid_until' = r.valid_until
    /\ clock' = now

TokenSelf == [token_info |-> token_info, valid_until |-> valid_until]

(* start_requests, one year per resumption: get_authorized_request builds   *)
(* the request of the year's first page; an exception of                    *)
(* get_authorized_header ends the generator.  dt seconds have passed since  *)
(* the clock was last read.                                                 *)
StartRequests ==
    /\ start_pos \in 1..Len(target_year)
    /\ \E dt \in 0..MaxDelay, offered \in CrawlGrantOutcomes :
          LET r == get_authorized_header(TokenSelf, clock + dt, clock + dt, offered)
          IN /\ clock + dt <= MaxClock
             /\ TokenAfter(r, clock + dt)
             /\ IF r.result.kind = "header"
                THEN /\ spotify_requests' = spotify_requests \cup {SearchUrl(start_pos, 1)}
                     /\ start_pos' = start_pos + 1
                     /\ errors' = errors
                ELSE /\ spotify_requests' = spotify_requests
                     /\ start_pos' = Len(target_year) + 1
                     /\ errors' = errors \cup
                           {SpiderError("start_requests", <<start_pos, 0, 0>>, r.result.exc)}
    /\ UNCHANGED <<spider, genius_hits, max_hits, genius_requests, lyrics_requests, parse_frames,
                   search_frames, tracks, files, served, matched, processed, tokenHistory,
                   legalVars, ctorVars>>

(* the url of the page that was just parsed *)
SamePageUrl(url, page) == url

(* url=searched_tracks['next'] *)
FollowUpUrl(url, page) == page.next

(* yield self.get_authorized_request(url=searched_tracks['next'], ...), the *)
(* last statement of both parse callbacks                                   *)
FollowUp(url, page, frames0, requests0, tracks0) ==
    /\ \E dt \in 0..MaxDelay, offered \in CrawlGrantOutcomes :
          LET r == get_authorized_header(TokenSelf, clock + dt, clock + dt, offered)
          IN /\ clock + dt <= MaxClock
             /\ TokenAfter(r, clock + dt)
             /\ IF r.result.kind = "header"
                THEN /\ spotify_requests' = requests0 \cup {FollowUpUrl(url, page)}
                     /\ errors' = errors
                ELSE /\ spotify_requests' = requests0
                     /\ errors' = errors \cup
                           {SpiderError("parse", <<url.year, url.page, 0>>, r.result.exc)}
    /\ parse_frames' = frames0
    /\ tracks' = tracks0
    /\ UNCHANGED <<files, genius_requests, processed>>

(* A KeyError raised in a parse callback at track k of the page (0: before  *)
(* the first track) ends the generator; the engine logs it                  *)
ParseRaises(url, k, frames0, requests0, tracks0) ==
    /\ errors' = errors \cup {SpiderError("parse", <<url.year, url.page, k>>, "KeyError")}
    /\ parse_frames' = frames0
    /\ spotify_requests' = requests0
    /\ tracks' = tracks0
    /\ UNCHANGED <<files, genius_requests, processed, clock, valid_until, token_info>>

(* parse with its two yields swapped: the follow-up request first, the page *)
(* after it                                                                 *)
ParsePlainFollowUpFirst(url, page, pos, frames0, requests0, tracks0, opens) ==
    IF pos = 0 /\ "next" \in page.keys
    THEN FollowUp(url, page, frames0 \cup {[url |-> url, page |-> page, pos |-> 1]},
                  requests0, tracks0)
    ELSE LET p == process_item(PageItem(page), files, opens)
         IN /\ files' = p.files
            /\ processed' = Handed(processed, <<url.year, url.page, 0>>, PageItem(page))
            /\ errors' = IF p.raised = "" THEN errors
                         ELSE errors \cup
                                {SpiderError("process_item", <<url.year, url.page, 0>>, p.raised)}
            /\ parse_frames' = frames0
            /\ spotify_requests' = requests0
            /\ tracks' = tracks0
            /\ UNCHANGED <<genius_requests, clock, valid_until, token_info>>

(* SpotifySearchCrawler.parse from its pos-th yield on *)
ParsePlain(url, page, pos, frames0, requests0, tracks0, opens) ==
    IF pos = 0
    THEN LET p == process_item(PageItem(page), files, opens)
         IN /\ files' = p.files
            /\ processed' = Handed(processed, <<url.year, url.page, 0>>, PageItem(page))
            /\ errors' = IF p.raised = "" THEN errors
                         ELSE errors \cup
                                {SpiderError("process_item", <<url.year, url.page, 0>>, p.raised)}
            /\ parse_frames' = IF "next" \in page.keys
                               THEN frames0 \cup {[url |-> url, page |-> page, pos |-> 1]}
                               ELSE frames0
            /\ spotify_requests' = requests0
            /\ tracks' = tracks0
            /\ UNCHANGED <<genius_requests, clock, valid_until, token_info>>
    ELSE FollowUp(url, page, frames0, requests0, tracks0)

(* SpotifySearchCrawlerWithLyrics.parse from its pos-th yield on: the reads  *)
(* of href and items come before the loop; in the loop the track is stamped *)
(* before its artists and name are read                                     *)
ParseWithLyrics(url, page, pos, frames0, requests0, tracks0, opens) ==
    IF pos = 0 /\ ~({"href", "items"} \subseteq page.keys)
    THEN ParseRaises(url, 0, frames0, requests0, tracks0)
    ELSE IF pos < Len(page.items)
    THEN LET ref == page.items[pos + 1]
             track == [tracks0[ref] EXCEPT
                         !.keys = @ \cup {"pipeline_identifier"},
                         !.pipeline_identifier = urlparse_query(page.href)]
         IN IF ~({"artists", "name"} \subseteq track.keys)
            THEN ParseRaises(url, pos + 1, frames0, requests0,
                             [tracks0 EXCEPT ![ref] = track])
            ELSE /\ tracks' = [tracks0 EXCEPT ![ref] = track]
                 /\ genius_requests' = genius_requests \cup
                       {[track |-> ref, song_name |-> track.name,
                         artist_name |-> track.artist, exact |-> spider.require_exact]}
                 /\ parse_frames' =
                       IF pos + 1 < Len(page.items) \/ "next" \in page.keys
                       THEN frames0 \cup {[url |-> url, page |-> page, pos |-> pos + 1]}
                       ELSE frames0
                 /\ spotify_requests' = requests0
                 /\ UNCHANGED <<files, errors, processed, clock, valid_until, token_info>>
    ELSE IF "next" \in page.keys
    THEN FollowUp(url, page, frames0, requests0, tracks0)
    ELSE /\ parse_frames' = frames0
         /\ spotify_requests' = requests0
         /\ tracks' = tracks0
         /\ UNCHANGED <<files, errors, processed, genius_requests, clock, valid_until,
                        token_info>>

RunParse(url, page, pos, frames0, requests0, tracks0, opens) ==
    IF spider.name = "SpotifySearchCrawler"
    THEN ParsePlain(url, page, pos, frames0, requests0, tracks0, opens)
    ELSE ParseWithLyrics(url, page, pos, frames0, requests0, tracks0, opens)

(* The engine downloads a scheduled search request and calls parse, whose   *)
(* first statement reads response.json()['tracks']                          *)
FetchPage ==
    \E url \in spotify_requests :
       \E resp \in ResponsesAt(url), song \in SpotifySongs, opens \in BOOLEAN :
          \E faults \in [1..Len(resp.tracks.items) -> TrackFaults] :
             LET page == resp.tracks
             IN /\ served' = [served EXCEPT ![url.year] = Append(@, page)]
                /\ IF "tracks" \notin resp.keys
                   THEN ParseRaises(url, 0, parse_frames, spotify_requests \ {url}, tracks)
                   ELSE RunParse(url, page, 0, parse_frames, spotify_requests \ {url},
                                 [ref \in {page.items[k] : k \in 1..Len(page.items)} |->
                                     Faulty(TrackDict(ref, song), faults[ref[3]])] @@ tracks,
                                 opens)
                /\ UNCHANGED <<spider, genius_hits, max_hits, start_pos, lyrics_requests,
                               search_frames, matched, tokenHistory, legalVars, ctorVars>>

(* The engine resumes a suspended parse generator *)
ResumeParse ==
    \E frame \in parse_frames :
       /\ RunParse(frame.url, frame.page, frame.pos, parse_frames \ {frame},
                   spotify_requests, tracks, TRUE)
       /\ UNCHANGED <<spider, genius_hits, max_hits, start_pos, lyrics_requests, search_frames,
                      served, matched, tokenHistory, legalVars, ctorVars>>

(* The test of parse_lyrics_search_result with `and` turned into `or` *)
accepts_either(c, exact, artist_name, song_name) ==
    /\ c.type = "song"
    /\ \/ ~exact
       \/ contains(lower(c.artist_names), lower(artist_name))
       \/ contains(lower(c.title), lower(song_name))

(* c['type'] == 'song' and (not exact or artist_name_lower in                *)
(* song_data['artist_names'].lower() and song_name_lower in                  *)
(* song_data['title'].lower())                                               *)
accepts(c, exact, artist_name, song_name) ==
    /\ c.type = "song"
    /\ \/ ~exact
       \/ /\ contains(lower(c.artist_names), lower(artist_name))
          /\ contains(lower(c.title), lower(song_name))

(* The position after pos of the next candidate the loop yields a request   *)
(* for, 0 when the loop runs out                                            *)
NextAccepted(frame) ==
    LET ok == { j \in (frame.pos + 1)..Len(frame.hits) :
                  accepts(frame.hits[j], frame.exact, frame.artist_name, frame.song_name) }
    IN IF ok = {} THEN 0 ELSE CHOOSE j \in ok : \A k \in ok : j <= k

(* track['lyrics'] = track['lyrics-song-name'] = track['lyrics-artist-name'] *)
(*     = LYRICS_NOT_FOUND                                                    *)
NotFound(track) ==
    [track EXCEPT
        !.keys = @ \cup {"lyrics", "lyrics-song-name", "lyrics-artist-name"},
        !.lyrics = LYRICS_NOT_FOUND,
        !.lyrics_song_name = LYRICS_NOT_FOUND,
        !.lyrics_artist_name = LYRICS_NOT_FOUND]

(* parse_lyrics_search_result from candidate frame.pos on: up to the next   *)
(* yield, or through the statements after the loop                          *)
RunSearch(frame, frames0, matched0) ==
    LET j == NextAccepted(frame)
    IN IF j # 0
       THEN /\ lyrics_requests' = lyrics_requests \cup
                  {[track |-> frame.track,
                    path |-> frame.hits[j].path,
                    lyrics_artist_name |-> frame.hits[j].artist_names,
                    lyrics_song_name |-> frame.hits[j].title]}
            /\ search_frames' = frames0 \cup {[frame EXCEPT !.pos = j]}
            /\ matched' = [matched0 EXCEPT ![frame.track].issued = Append(@, j)]
            /\ tracks' = tracks
       ELSE /\ tracks' = [tracks EXCEPT ![frame.track] = NotFound(@)]
            /\ search_frames' = frames0
            /\ matched' = [matched0 EXCEPT ![frame.track].not_found = TRUE]
            /\ lyrics_requests' = lyrics_requests

(* The engine downloads a Genius search request and calls                   *)
(* parse_lyrics_search_result                                               *)
FetchSearch ==
    \E req \in genius_requests, hits \in HitLists(genius_hits, max_hits) :
       /\ genius_requests' = genius_requests \ {req}
       /\ RunSearch([track |-> req.track, song_name |-> req.song_name,
                     artist_name |-> req.artist_name, exact |-> req.exact,
                     hits |-> hits, pos |-> 0],
                    search_frames,
                    (req.track :> [song_name |-> req.song_name,
                                   artist_name |-> req.artist_name,
                                   exact |-> req.exact, hits |-> hits,
                                   issued |-> <<>>, not_found |-> FALSE]) @@ matched)
       /\ UNCHANGED <<spider, genius_hits, max_hits, start_pos, spotify_requests, parse_frames,
                      files, errors, served, processed, tokenVars, legalVars, ctorVars>>

(* The engine resumes a suspended parse_lyrics_search_result generator *)
ResumeSearch ==
    \E frame \in search_frames :
       /\ RunSearch(frame, search_frames \ {frame}, matched)
       /\ UNCHANGED <<spider, genius_hits, max_hits, start_pos, spotify_requests, genius_requests,
                      parse_frames, files, errors, served, processed, tokenVars, legalVars,
                      ctorVars>>

(* populate_song_lyrics leaving alone the lyrics fields a track already has *)
PopulatedUnlessSet(track, lyrics, lyrics_song_name, lyrics_artist_name) ==
    IF "lyrics" \in track.keys THEN track
    ELSE [track EXCEPT
            !.keys = @ \cup {"lyrics", "lyrics-song-name", "lyrics-artist-name"},
            !.lyrics = lyrics,
            !.lyrics_song_name = lyrics_song_name,
            !.lyrics_artist_name = lyrics_artist_name]

(* populate_song_lyrics up to its yield *)
Populated(track, lyrics, lyrics_song_name, lyrics_artist_name) ==
    [track EXCEPT
        !.keys = @ \cup {"lyrics", "lyrics-song-name", "lyrics-artist-name"},
        !.lyrics = lyrics,
        !.lyrics_song_name = lyrics_song_name,
        !.lyrics_artist_name = lyrics_artist_name]

(* The engine downloads a lyrics page and calls populate_song_lyrics, whose *)
(* one yield hands the track to process_item                                *)
PopulateSongLyrics ==
    \E req \in lyrics_requests, opens \in BOOLEAN :
       LET track == Populated(tracks[req.track], join(LyricsSections(req.path)),
                              req.lyrics_song_name, req.lyrics_artist_name)
           p == process_item(track, files, opens)
       IN /\ lyrics_requests' = lyrics_requests \ {req}
          /\ tracks' = [tracks EXCEPT ![req.track] = track]
          /\ files' = p.files
          /\ processed' = Handed(processed, req.track, track)
          /\ errors' = IF p.raised = "" THEN errors
                       ELSE errors \cup {SpiderError("process_item", req.track, p.raised)}
          /\ UNCHANGED <<spider, genius_hits, max_hits, start_pos, spotify_requests, genius_requests,
                         parse_frames, search_frames, served, matched, tokenVars,
                         legalVars, ctorVars>>

CrawlIdle ==
    /\ spider = [name |-> "SpotifySearchCrawler", require_exact |-> FALSE]
    /\ genius_hits = {}
    /\ max_hits = 0
    /\ start_pos = 0
    /\ spotify_requests = {}
    /\ genius_requests = {}
    /\ lyrics_requests = {}
    /\ parse_frames = {}
    /\ search_frames = {}
    /\ tracks = <<>>
    /\ files = <<>>
    /\ errors = {}
    /\ served = <<>>
    /\ matched = <<>>
    /\ processed = <<>>

(* A spider constructed and handed to the engine, nothing requested yet *)
InitCrawl ==
    /\ spider \in Spiders
    /\ genius_hits = CrawlHits
    /\ max_hits = MaxCrawlHits
    /\ start_pos = 1
    /\ spotify_requests = {}
    /\ genius_requests = {}
    /\ lyrics_requests = {}
    /\ parse_frames = {}
    /\ search_frames = {}
    /\ tracks = <<>>
    /\ files = <<>>
    /\ errors = {}
    /\ served = [y \in 1..Len(target_year) |-> <<>>]
    /\ matched = <<>>
    /\ processed = <<>>
    /\ TokenConstructed
    /\ LegalizeIdle

(* The lyrics spider at the point where parse has yielded the Genius search *)
(* request of the one track of a last page                                  *)
InitMatcher ==
    \E song \in MatcherSongs, exact \in BOOLEAN :
       LET url == SearchUrl(1, 1)
           page == PageDict(url, 1, FALSE)
           ref == page.items[1]
           track == [TrackDict(ref, song) EXCEPT
                        !.keys = @ \cup {"pipeline_identifier"},
                        !.pipeline_identifier = urlparse_query(page.href)]
       IN /\ spider = [name |-> "SpotifySearchCrawlerWithLyrics", require_exact |-> exact]
          /\ genius_hits = MatcherHits
          /\ max_hits = MaxHits
          /\ start_pos = Len(target_year) + 1
          /\ spotify_requests = {}
          /\ genius_requests = {[track |-> ref, song_name |-> song.name,
                                 artist_name |-> song.artist, exact |-> exact]}
          /\ lyrics_requests = {}
          /\ parse_frames = {}
          /\ search_frames = {}
          /\ tracks = (ref :> track)
          /\ files = <<>>
          /\ errors = {}
          /\ served = [y \in 1..Len(target_year) |->
                         <<PageDict(SearchUrl(y, 1), IF y = 1 THEN 1 ELSE 0, FALSE)>>]
          /\ matched = <<>>
          /\ processed = <<>>
          /\ clock = 1
          /\ token_info = CHOOSE b \in GrantBodies :
                               b.access_token = "t1" /\ b.expires_in = 30
          /\ valid_until = 1
          /\ calls = 0
          /\ grants = 0
          /\ firstOk = NoGrant
          /\ lastCall = NoCall
          /\ lastOk = NoGrant
          /\ lazy_grants = 0
          /\ environ = {}
          /\ constructed = Constructed("SpotifyClientCredentialsJWTToken",
                                       [NoArgs EXCEPT !.client_id = "id",
                                                      !.client_secret = "secret"],
                                       "id", "secret", Missing, TRUE, "")
          /\ LegalizeIdle

NextMatcher ==
    \/ FetchSearch
    \/ ResumeSearch
    \/ PopulateSongLyrics

SpecMatcher == InitMatcher /\ [][NextMatcher]_vars

NextCrawl ==
    \/ StartRequests
    \/ FetchPage
    \/ ResumeParse
    \/ FetchSearch
    \/ ResumeSearch
    \/ PopulateSongLyrics

Spec == InitCrawl /\ [][NextCrawl]_vars

----------------------------------------------------------------------------
(* The token alone, called at arbitrary times *)

InitToken == TokenConstructed /\ LegalizeIdle /\ CrawlIdle

NextToken == Call \/ Tick

SpecToken == InitToken /\ [][NextToken]_vars

(* The constructors alone, under every environment *)

(* Clock readings below the valid_until of 0.0 that __init__ sets *)
EarlyClocks == {-1}

BeforeConstruction ==
    /\ clock \in StartClocks \cup EarlyClocks
    /\ valid_until = 0
    /\ token_info = None
    /\ calls = 0
    /\ grants = 0
    /\ firstOk = NoGrant
    /\ lastCall = NoCall
    /\ lastOk = NoGrant
    /\ lazy_grants = 0
    /\ constructed = NotConstructed

InitConstruct ==
    /\ environ \in SUBSET EnvNames
    /\ BeforeConstruction
    /\ LegalizeIdle
    /\ CrawlIdle

NextConstruct ==
    \/ ConstructToken
    \/ ConstructGenius
    \/ ConstructCrawler

SpecConstruct == InitConstruct /\ [][NextConstruct]_vars

(* The token from its construction on, both credentials given as arguments *)

InitLifecycle ==
    /\ environ = {}
    /\ BeforeConstruction
    /\ LegalizeIdle
    /\ CrawlIdle

NextLifecycle ==
    \/ ConstructTokenWithCredentials
    \/ Call
    \/ Tick

SpecLifecycle == InitLifecycle /\ [][NextLifecycle]_vars

(* legalize_filename alone, on the filenames of Filenames *)

InitLegalize ==
    /\ filename \in Filenames
    /\ legalized = <<>>
    /\ TokenConstructed
    /\ CrawlIdle

NextLegalize == LegalizeFilename \/ LegalizeAgain

SpecLegalize == InitLegalize /\ [][NextLegalize]_vars

----------------------------------------------------------------------------
(* Properties of the token *)

(* The last reading at which a call is still inside the validity window of *)
(* the first successful grant: its refresh_time + expires_in - 30.         *)
FirstWindowEnd == firstOk.time + firstOk.body.expires_in - Bleed

(* C1: as long as the clock has not passed refresh_time + expires_in - 30   *)
(* of the first successful grant, that grant is the only grant exchange     *)
(* made since, and the latest call returned the Bearer header of its        *)
(* access_token.  The clock never goes back, so every call from the first   *)
(* successful grant on was made inside the window.                          *)
C1_OneGrantInsideWindow ==
    (firstOk.set /\ clock <= FirstWindowEnd)
        => /\ grants - firstOk.grants_before = 1
           /\ lastCall.result = Header(firstOk.body.access_token)

(* A later call, at a later reading inside the window, served from the cache. *)
C1_Witness ==
    /\ firstOk.set
    /\ clock <= FirstWindowEnd
    /\ lastCall.made
    /\ lastCall.now > firstOk.time
    /\ ~lastCall.exchanged
    /\ lastCall.result.kind = "header"

(* C2: a call that finds the clock past valid_until makes exactly one grant *)
(* exchange; a header it returns carries the access_token of that exchange, *)
(* and it does return that header when the exchange gave a full body.       *)
C2_RefreshAfterExpiry ==
    (lastCall.made /\ lastCall.now > lastCall.seen_valid_until)
        => /\ lastCall.exchanged
           /\ grants = lastCall.grants_before + 1
           /\ lastCall.result.kind = "header"
                 => lastCall.result = Header(lastCall.outcome.body.access_token)
           /\ Succeeds(lastCall.outcome)
                 => lastCall.result = Header(lastCall.outcome.body.access_token)

(* A cached token of an earlier grant ran out and the call got another one. *)
C2_Witness ==
    /\ lastCall.made
    /\ FullBody(lastCall.seen_token_info)
    /\ lastCall.seen_valid_until > 0
    /\ lastCall.now > lastCall.seen_valid_until
    /\ lastCall.result.kind = "header"
    /\ lastCall.seen_token_info.access_token # lastCall.outcome.body.access_token

(* C3: a call whose grant exchange fails (urlopen raises, or the body lacks *)
(* access_token or expires_in) returns an error and leaves token_info and   *)
(* valid_until as the call found them.                                      *)
C3_FailedGrantLeavesCache ==
    (lastCall.made /\ lastCall.exchanged /\ ~Succeeds(lastCall.outcome))
        => /\ lastCall.result.kind = "error"
           /\ token_info = lastCall.seen_token_info
           /\ valid_until = lastCall.seen_valid_until


(* C14 as stated: every grant exchange made so far was made by a            *)
(* get_authorized_header call that read the clock past valid_until; none    *)
(* was made by the constructor.                                             *)
C14_GrantsOnlyLazily == grants = lazy_grants

(* The grant exchanges the constructor made: one when it was called with    *)
(* lazy_initialize=False and got as far as refresh_token                    *)
ConstructorGrants ==
    IF constructed.kind = "SpotifyClientCredentialsJWTToken"
         /\ ~constructed.lazy_initialize
         /\ constructed.raised \in {"", "URLError", "KeyError"}
    THEN 1 ELSE 0

(* C14, amended: a get_authorized_header call makes a grant exchange        *)
(* exactly when it reads the clock past valid_until, and the only other     *)
(* grant exchange is the one a constructor called with lazy_initialize=False*)
(* makes; an object constructed lazily has made none before its first call. *)
C14_GrantsLazyButForEagerInit ==
    /\ grants = lazy_grants + ConstructorGrants
    /\ lastCall.made =>
          (lastCall.exchanged <=> lastCall.now > lastCall.seen_valid_until)
    /\ (constructed.lazy_initialize /\ calls = 0) => grants = 0

(* An eagerly constructed token whose first grant ran out and that was      *)
(* refreshed by a later call, and served another call from the cache        *)
C14_Witness ==
    /\ ~constructed.lazy_initialize
    /\ grants = 2
    /\ lazy_grants = 1
    /\ lastCall.made
    /\ ~lastCall.exchanged

(* C19: a get_authorized_header call that returned a header left token_info *)
(* set, and the header is the Bearer header of the access_token of the most *)
(* recent grant exchange that gave a full body, which is the access_token   *)
(* token_info holds.                                                        *)
C19_HeaderOfLatestGrant ==
    (lastCall.made /\ lastCall.result.kind = "header")
        => /\ token_info.set
           /\ lastOk.set
           /\ lastCall.result = Header(lastOk.body.access_token)
           /\ token_info = lastOk.body

(* A header returned by a call that read the clock below 0, from a grant    *)
(* with expires_in no more than 30                                          *)
C19_Witness ==
    /\ lastCall.made
    /\ lastCall.now < 0
    /\ lastCall.result.kind = "header"
    /\ lastOk.set
    /\ lastOk.body.expires_in <= Bleed

----------------------------------------------------------------------------
(* Properties of the crawl *)

(* Nothing scheduled and no generator suspended: the engine has nothing left *)
Quiescent ==
    /\ start_pos > Len(target_year)
    /\ spotify_requests = {}
    /\ genius_requests = {}
    /\ lyrics_requests = {}
    /\ parse_frames = {}
    /\ search_frames = {}

(* The chain of year y has been served its page without a next cursor *)
ChainEnded(y) == served[y] # <<>> /\ "next" \notin served[y][Len(served[y])].keys

(* An exception ended start_requests or a parse callback *)
ChainErrors == { e \in errors : e.callback \in {"start_requests", "parse"} }

(* C4: the responses served to the callback chain of one initial request    *)
(* are the chain's pages 1, 2, ..., each fetched once; every one but the    *)
(* last carries a next cursor, so the page fetches number N when the N-th,  *)
(* the first without next, has been served; from then on no request of that *)
(* chain is scheduled or about to be yielded; and when the engine runs dry  *)
(* without an exception having ended start_requests or a parse callback,    *)
(* every chain has reached that page.                                       *)
C4_PaginationTerminates ==
    /\ \A y \in DOMAIN served :
          /\ \A i \in 1..Len(served[y]) :
                /\ served[y][i].href = Href(SearchUrl(y, i))
                /\ i < Len(served[y]) => "next" \in served[y][i].keys
          /\ ChainEnded(y) =>
                /\ \A url \in spotify_requests : url.year # y
                /\ \A frame \in parse_frames :
                      frame.url.year = y => "next" \notin frame.page.keys
    /\ (Quiescent /\ ChainErrors = {}) => \A y \in DOMAIN served : ChainEnded(y)

(* A chain of two pages fetched to its end by the lyrics spider *)
C4_Witness ==
    /\ spider.name = "SpotifySearchCrawlerWithLyrics"
    /\ Quiescent
    /\ Len(served[1]) = 2
    /\ ChainEnded(1)
    /\ \A i \in 1..2 : Len(served[1][i].items) = 1

(* sub occurs in s as a run of consecutive characters *)
Substring(sub, s) ==
    \E i \in 1..(Len(s) + 1), j \in 0..Len(s) : SubSeq(s, i, j) = sub

(* The hits of a track's search that a lyrics page request was yielded for *)
Fetched(ref) ==
    { matched[ref].hits[matched[ref].issued[k]] : k \in 1..Len(matched[ref].issued) }

(* parse_lyrics_search_result has run to its end for the track *)
SearchDone(ref) ==
    /\ ref \in DOMAIN matched
    /\ \A frame \in search_frames : frame.track # ref

(* C5: a lyrics page is requested only for a hit of type "song", and with   *)
(* exact set only for one whose lower-cased artist_names holds the          *)
(* lower-cased artist name of the track and whose lower-cased title holds   *)
(* its lower-cased song name.                                               *)
C5_ExactFetchesOnlyMatches ==
    \A ref \in DOMAIN matched : \A c \in Fetched(ref) :
       /\ c.type = "song"
       /\ matched[ref].exact =>
             /\ Substring(lower(matched[ref].artist_name), lower(c.artist_names))
             /\ Substring(lower(matched[ref].song_name), lower(c.title))

(* With exact set, a song whose title does not match is passed over and a   *)
(* song that matches only after lower-casing both sides is fetched.         *)
C5_Witness ==
    \E ref \in DOMAIN matched :
       /\ matched[ref].exact
       /\ SearchDone(ref)
       /\ matched[ref].song_name = <<"H", "i">>
       /\ matched[ref].artist_name = <<"A", "l">>
       /\ matched[ref].hits = << Hit("song", <<"i">>, <<"a", "L">>),
                                 Hit("song", <<"h", "I", "b">>, <<"a", "L">>) >>
       /\ matched[ref].issued = <<2>>

(* The hits of a search that qualify: songs, matching ones when exact is set *)
Qualifying(ref) ==
    { j \in 1..Len(matched[ref].hits) :
        LET c == matched[ref].hits[j]
        IN /\ c.type = "song"
           /\ matched[ref].exact =>
                 /\ Substring(lower(matched[ref].artist_name), lower(c.artist_names))
                 /\ Substring(lower(matched[ref].song_name), lower(c.title)) }

(* C6: at most one lyrics page is requested per track, and once the search  *)
(* callback is through, the one requested is that of the first qualifying   *)
(* hit.                                                                     *)
C6_OnlyFirstQualifyingFetched ==
    \A ref \in DOMAIN matched :
       /\ Cardinality({ c.path : c \in Fetched(ref) }) <= 1
       /\ (SearchDone(ref) /\ Qualifying(ref) # {}) =>
             matched[ref].issued =
                << CHOOSE j \in Qualifying(ref) : \A k \in Qualifying(ref) : j <= k >>

(* C7: the callback writes the not-found sentinel into the track exactly    *)
(* when it ends without having requested a lyrics page for any hit.         *)
C7_SentinelIffNoneAccepted ==
    \A ref \in DOMAIN matched :
       /\ matched[ref].not_found => matched[ref].issued = <<>>
       /\ (SearchDone(ref) /\ matched[ref].issued = <<>>) => matched[ref].not_found

(* C13: no OSError of a failed write comes out of process_item.             *)
C13_WriteFailureSwallowed ==
    \A err \in errors : err.callback = "process_item" => err.exc # "OSError"

(* The item process_item dumped for the track, if any *)
Persisted(ref) ==
    { files[f] : f \in { g \in DOMAIN files : files[g].id = tracks[ref].id } }

(* C8: once the engine has run dry, a track whose Genius search listed no   *)
(* hit has been written out, with the sentinel in its three lyrics fields.  *)
C8_NoHitTrackPersisted ==
    Quiescent =>
       \A ref \in DOMAIN matched :
          matched[ref].hits = <<>> =>
             \E item \in Persisted(ref) :
                /\ item.lyrics = LYRICS_NOT_FOUND
                /\ item.lyrics_song_name = LYRICS_NOT_FOUND
                /\ item.lyrics_artist_name = LYRICS_NOT_FOUND

(* s starts with prefix *)
StartsWith(s, prefix) ==
    Len(prefix) <= Len(s) /\ SubSeq(s, 1, Len(prefix)) = prefix

(* C9: SpotifySearchCrawler through TrackItemPipeline, on a chain of two    *)
(* pages of one track each: once the engine has run dry there are two       *)
(* output files, one per page, each named from the query string of its      *)
(* page's href.                                                             *)
C9_TwoPagesTwoFiles ==
    \A y \in DOMAIN served :
       ( /\ spider.name = "SpotifySearchCrawler"
         /\ Quiescent
         /\ Len(served[y]) = 2
         /\ ChainEnded(y)
         /\ \A i \in 1..2 : Len(served[y][i].items) = 1 )
       => /\ Cardinality(DOMAIN files) = 2
          /\ \A i \in 1..2 :
                \E f \in DOMAIN files :
                   StartsWith(f, legalize_filename(urlparse_query(served[y][i].href)))

(* The query string of an href: what follows its first "?" *)
IsQueryOf(q, href) ==
    \E i \in 1..Len(href) :
       /\ href[i] = "?"
       /\ \A j \in 1..(i - 1) : href[j] # "?"
       /\ q = SubSeq(href, i + 1, Len(href))

(* C15: every track the lyrics spider hands to process_item has a           *)
(* pipeline_identifier, and it is the query string of the href of the page  *)
(* that delivered the track.                                                *)
C15_TrackCarriesPageQuery ==
    spider.name = "SpotifySearchCrawlerWithLyrics" =>
       \A x \in DOMAIN processed :
          /\ x.at[2] \in 1..Len(served[x.at[1]])
          /\ x.at \in DOMAIN tracks
          /\ x.item.id = tracks[x.at].id
          /\ "pipeline_identifier" \in x.item.keys
          /\ IsQueryOf(x.item.pipeline_identifier, served[x.at[1]][x.at[2]].href)

(* The track of the second page reaches process_item while the Genius       *)
(* search for the track of the first page is still to be answered           *)
C15_Witness ==
    /\ spider.name = "SpotifySearchCrawlerWithLyrics"
    /\ \E x \in DOMAIN processed :
          /\ x.at = <<1, 2, 1>>
          /\ x.item.pipeline_identifier = <<"y", "1", "o", "2">>
    /\ \E req \in genius_requests : req.track = <<1, 1, 1>>

(* The number of times the page i of year y was handed downstream *)
Emitted(y, i) ==
    LET x == [at |-> <<y, i, 0>>, item |-> PageItem(served[y][i])]
    IN IF x \in DOMAIN processed THEN processed[x] ELSE 0

(* C16: SpotifySearchCrawler has emitted every page it fetched exactly once *)
(* and nothing else; a follow-up request is scheduled only for the next     *)
(* cursor of the page fetched last, after that page was emitted; and every  *)
(* page after the first was reached through the next cursor of the page     *)
(* before it.                                                               *)
C16_PageEmittedBeforeFollowUp ==
    spider.name = "SpotifySearchCrawler" =>
       /\ \A x \in DOMAIN processed :
             /\ x.at[3] = 0
             /\ x.at[2] \in 1..Len(served[x.at[1]])
             /\ x.item = PageItem(served[x.at[1]][x.at[2]])
       /\ \A y \in DOMAIN served :
             /\ \A i \in 1..Len(served[y]) :
                   /\ served[y][i] # NoTracks(SearchUrl(y, i)) => Emitted(y, i) = 1
                   /\ i > 1 => /\ "next" \in served[y][i - 1].keys
                               /\ served[y][i - 1].next = SearchUrl(y, i)
             /\ \A url \in spotify_requests :
                   (url.year = y /\ url.page > 1) =>
                      /\ url.page = Len(served[y]) + 1
                      /\ "next" \in served[y][url.page - 1].keys
                      /\ url = served[y][url.page - 1].next
                      /\ Emitted(y, url.page - 1) = 1

(* The follow-up request of a first page is scheduled, the page emitted *)
C16_Witness ==
    /\ spider.name = "SpotifySearchCrawler"
    /\ SearchUrl(1, 2) \in spotify_requests
    /\ Len(served[1]) = 1
    /\ Emitted(1, 1) = 1

(* The tracks of page i of year y that lack artists or name *)
BadTracks(y, i) ==
    { ref \in DOMAIN tracks :
        ref[1] = y /\ ref[2] = i /\ ~({"artists", "name"} \subseteq tracks[ref].keys) }

(* C17: of a response that lacks tracks, href or items, or that holds a     *)
(* track lacking artists or name, nothing is handed to process_item and no  *)
(* file is written: not the page, not the track.                            *)
C17_MalformedNotEmitted ==
    \A y \in DOMAIN served : \A i \in 1..Len(served[y]) :
       (~({"href", "items"} \subseteq served[y][i].keys) \/ BadTracks(y, i) # {})
          => /\ \A x \in DOMAIN processed :
                   x.at # <<y, i, 0>> /\ x.at \notin BadTracks(y, i)
             /\ \A f \in DOMAIN files :
                   files[f].id \notin { tracks[ref].id : ref \in BadTracks(y, i) }

(* C18: a record written for a track holds the lyrics, title and artist     *)
(* names of one hit that a lyrics page was requested for, and in none of    *)
(* the three fields the sentinel, whether the search callback ran through   *)
(* its last statements before or after populate_song_lyrics.                *)
C18_PersistedHoldsCandidate ==
    \A ref \in DOMAIN matched : \A item \in Persisted(ref) :
       /\ \E c \in Fetched(ref) :
             /\ item.lyrics = join(LyricsSections(c.path))
             /\ item.lyrics_song_name = c.title
             /\ item.lyrics_artist_name = c.artist_names
       /\ LYRICS_NOT_FOUND \notin
             {item.lyrics, item.lyrics_song_name, item.lyrics_artist_name}

(* The generator was resumed after the record was written: the track in     *)
(* memory holds the sentinel, the record the lyrics                         *)
C18_Witness ==
    \E ref \in DOMAIN matched :
       /\ matched[ref].not_found
       /\ tracks[ref].lyrics = LYRICS_NOT_FOUND
       /\ Persisted(ref) # {}
       /\ \A item \in Persisted(ref) : item.lyrics # LYRICS_NOT_FOUND

(* C20: once parse is through with a well-formed page of the lyrics spider  *)
(* that has a next cursor, and get_authorized_request did not fail, the     *)
(* request for that cursor has been made, whatever the page's tracks lack.  *)
C20_BadTrackKeepsPagination ==
    spider.name = "SpotifySearchCrawlerWithLyrics" =>
       \A y \in DOMAIN served : \A i \in 1..Len(served[y]) :
          ( /\ {"href", "items", "next"} \subseteq served[y][i].keys
            /\ \A frame \in parse_frames : frame.url # SearchUrl(y, i)
            /\ \A err \in errors : ~(err.callback = "parse" /\ err.at = <<y, i, 0>>) )
          => \/ SearchUrl(y, i + 1) \in spotify_requests
             \/ Len(served[y]) > i

----------------------------------------------------------------------------
(* Properties of legalize_filename *)

(* The characters the table is to remove: " * < > ? \ / | : *)
ReservedChars == {"\"", "*", "<", ">", "?", "\\", "/", "|", ":"}

(* The token the table gives a reserved character, the character itself otherwise *)
TokenOf(c) ==
    IF \E i \in 1..Len(legalizer) : legalizer[i][1] = c
    THEN legalizer[CHOOSE i \in 1..Len(legalizer) : legalizer[i][1] = c][2]
    ELSE <<c>>

(* Every character replaced at once, each by its own token *)
RECURSIVE SubstituteAll(_)
SubstituteAll(s) ==
    IF s = <<>> THEN <<>> ELSE TokenOf(Head(s)) \o SubstituteAll(Tail(s))

(* a((fslash))b((colon))c((dquote))d *)
ExampleLegal ==
    <<"a", "(", "(", "f", "s", "l", "a", "s", "h", ")", ")",
      "b", "(", "(", "c", "o", "l", "o", "n", ")", ")",
      "c", "(", "(", "d", "q", "u", "o", "t", "e", ")", ")", "d">>

(* C10: the result of legalize_filename is the input with every reserved    *)
(* character replaced by its token and every other character kept, it holds *)
(* no reserved character, and a/b:c"d gives                                 *)
(* a((fslash))b((colon))c((dquote))d.                                       *)
C10_EveryReservedCharReplaced ==
    legalized # <<>>
        => /\ legalized[1] = SubstituteAll(filename)
           /\ \A i \in 1..Len(legalized[1]) : legalized[1][i] \notin ReservedChars
           /\ \A c \in ReservedChars : TokenOf(c) # <<c>>
           /\ filename = ExampleName => legalized[1] = ExampleLegal

(* A name holding a reserved character, brackets and a letter, legalized *)
C10_Witness ==
    /\ legalized # <<>>
    /\ filename = <<":", "(", "a">>
    /\ legalized[1] = <<"(", "(", "c", "o", "l", "o", "n", ")", ")", "(", "a">>

(* The table orders tried: the table's own order, each rotation of it, and  *)
(* each of those reversed                                                   *)
TableOrders ==
    LET n == Len(legalizer)
    IN { [i \in 1..n |-> ((i + r - 1) % n) + 1] : r \in 0..(n - 1) }
         \cup { [i \in 1..n |-> ((n - i + r) % n) + 1] : r \in 0..(n - 1) }

(* The loop of legalize_filename run over the table in another order *)
RECURSIVE legalize_in_order(_, _)
legalize_in_order(s, order) ==
    IF order = <<>> THEN s
    ELSE legalize_in_order(replace(s, legalizer[Head(order)][1], legalizer[Head(order)][2]),
                           Tail(order))

(* C11: legalize_filename applied to its own result gives that result       *)
(* again, and running the substitutions of the table in another order gives *)
(* the same name, for the filename and for the legalized name.              *)
C11_LegalizeIdempotent ==
    Len(legalized) = 2
        => /\ legalized[2] = legalized[1]
           /\ \A order \in TableOrders :
                 /\ legalize_in_order(filename, order) = legalized[1]
                 /\ legalize_in_order(legalized[1], order) = legalized[1]

(* A name with two reserved characters, legalized twice: the second call    *)
(* changed nothing although the first did                                   *)
C11_Witness ==
    /\ Len(legalized) = 2
    /\ filename = <<"/", ":", "a">>
    /\ legalized[1] # filename
    /\ legalized[2] = legalized[1]

----------------------------------------------------------------------------
(* Properties of the constructors *)

(* The credentials an object of a class cannot do without *)
RequiredCredentials(kind) ==
    CASE kind = "SpotifyClientCredentialsJWTToken" -> {"client_id", "client_secret"}
      [] kind = "GeniusAPIJWTToken" -> {"token"}
      [] kind = "SpotifySearchCrawlerWithLyrics" -> {"client_id", "client_secret", "token"}
      [] OTHER -> {}

(* The environment variables a credential of a class may come from *)
CredentialVariables(kind, credential) ==
    CASE kind = "SpotifyClientCredentialsJWTToken" /\ credential = "client_id"
            -> {"SPOTIFY_CLIENT_ID"}
      [] kind = "SpotifyClientCredentialsJWTToken" /\ credential = "client_secret"
            -> {"SPOTIFY_CLIENT_SECRET"}
      [] kind = "SpotifySearchCrawlerWithLyrics" /\ credential = "client_id"
            -> {"CLIENT_ID"}
      [] kind = "SpotifySearchCrawlerWithLyrics" /\ credential = "client_secret"
            -> {"CLIENT_SECRET"}
      [] OTHER -> {}

(* The credential was given as an argument or its variable is set *)
Supplied(credential) ==
    \/ constructed.args[credential] # Missing
    \/ CredentialVariables(constructed.kind, credential) \cap environ # {}

(* The value of the credential the constructed object holds *)
Held(credential) ==
    CASE credential = "client_id" -> constructed.client_id
      [] credential = "client_secret" -> constructed.client_secret
      [] OTHER -> constructed.token

(* C12: a constructor call with a required credential given neither as an   *)
(* argument nor by its environment variable ends in an exception, and an    *)
(* object that was constructed holds no required credential that is None.   *)
C12_MissingCredentialFails ==
    constructed.kind # "" =>
       /\ (\E c \in RequiredCredentials(constructed.kind) : ~Supplied(c))
              => constructed.raised # ""
       /\ constructed.raised = ""
              => \A c \in RequiredCredentials(constructed.kind) : Held(c) # Missing

====
